---- MODULE Spec2Model ----
(***************************************************************************)
(* A model of sandbox.ts: the grid generator (generateMatrix / randInt),   *)
(* the sign-run analyzer (signOf / minReplacementsToAvoidTriples), the     *)
(* minimum locator (findGlobalMin) and the table renderer                  *)
(* (computeColWidth / formatCell / prettyPrintMatrix).                     *)
(*                                                                         *)
(* A JavaScript cell value is a record [t, v]:                             *)
(*   t = "num"   a finite number, v its (integer) value                    *)
(*   t = "inf"   the number +Infinity      (typeof "number", not NaN)      *)
(*   t = "nan"   the number NaN            (typeof "number", NaN)          *)
(*   t = "undef" undefined, a missing cell (typeof "undefined")            *)
(*   t = "str"   the string "x", a non-numeric cell (typeof "string")      *)
(***************************************************************************)
EXTENDS Integers, Sequences, FiniteSets, TLC

VARIABLES pc, row, replacements, matrix, minResult, output, args, draws

vars == <<pc, row, replacements, matrix, minResult, output, args, draws>>

(***************************************************************************)
(* Cell values                                                             *)
(***************************************************************************)
Num(n) == [t |-> "num", v |-> n]
Inf == [t |-> "inf", v |-> 0]
NaN == [t |-> "nan", v |-> 0]
Undef == [t |-> "undef", v |-> 0]
Str == [t |-> "str", v |-> 0]

\* typeof v === "number"
IsNumberType(c) == c.t \in {"num", "inf", "nan"}

\* Number.isNaN(v)
IsNaN(c) == c.t = "nan"

\* The JavaScript comparison a < b of two non-NaN numbers.
NumLess(a, b) ==
    IF a.t = "inf" THEN FALSE
    ELSE IF b.t = "inf" THEN TRUE
    ELSE a.v < b.v

\* The JavaScript comparison a === b of two cell values.
StrictEq(a, b) == a.t = b.t /\ a.t # "nan" /\ a.v = b.v

(***************************************************************************)
(* Grid generator.  The arguments rows and cols are held in halves (rows2  *)
(* = 2 * rows), so that 3 stands for the non-integer 1.5.  Math.random()   *)
(* yields k / RandomSteps for some k in 0..RandomSteps-1.                  *)
(***************************************************************************)
RandomSteps == 8

randIntCeil(min, max, k) ==
    LET lo == IF min > max THEN max ELSE min
        hi == IF min > max THEN min ELSE max
    IN  ((k * (hi - lo + 1) + RandomSteps - 1) \div RandomSteps) + lo

\* randInt(min, max) when Math.random() returns k / RandomSteps
randInt(min, max, k) ==
    LET lo == IF min > max THEN max ELSE min
        hi == IF min > max THEN min ELSE max
    IN  ((k * (hi - lo + 1)) \div RandomSteps) + lo

\* Number.isInteger(x) for x = x2 / 2
IsInteger(x2) == x2 % 2 = 0

invalidDimensionsZeroAllowed(rows2, cols2) ==
    ~IsInteger(rows2) \/ ~IsInteger(cols2) \/ rows2 < 0 \/ cols2 < 0

\* The condition of lines 52-57 under which generateMatrix throws.
invalidDimensions(rows2, cols2) ==
    ~IsInteger(rows2) \/ ~IsInteger(cols2) \/ rows2 <= 0 \/ cols2 <= 0

\* The grids generateMatrix can return, one Math.random() value per cell.
generateMatrix(rows2, cols2, min, max) ==
    LET rows == rows2 \div 2
        cols == cols2 \div 2
        drawn == {Num(randInt(min, max, k)) : k \in 0..(RandomSteps - 1)}
    IN  [1..rows -> [1..cols -> drawn]]

(***************************************************************************)
(* Sign-run analyzer                                                       *)
(***************************************************************************)
signOfZeroPositive(c) ==
    IF ~IsNumberType(c) \/ IsNaN(c) THEN 0
    ELSE IF c.t = "inf" \/ c.v >= 0 THEN 1
    ELSE -1

signOf(c) ==
    IF ~IsNumberType(c) \/ IsNaN(c) THEN 0
    ELSE IF c.t = "inf" \/ c.v > 0 THEN 1
    ELSE IF c.v < 0 THEN -1
    ELSE 0

\* The inner while loop: the first index at or after i whose sign differs
\* from currentSign, or Len(cells) + 1.
RECURSIVE chainEnd(_, _, _)
chainEnd(cells, i, currentSign) ==
    IF i <= Len(cells) /\ signOf(cells[i]) = currentSign
    THEN chainEnd(cells, i + 1, currentSign)
    ELSE i

chainCostStrict(chain) == IF chain > 3 THEN chain \div 3 ELSE 0

\* if (chain >= 3) replacements += Math.floor(chain / 3)
chainCost(chain) == IF chain >= 3 THEN chain \div 3 ELSE 0

\* The outer while loop, from index i with the running total acc.
RECURSIVE scanRow(_, _, _)
scanRow(cells, i, acc) ==
    IF i > Len(cells) THEN acc
    ELSE IF signOf(cells[i]) = 0 THEN scanRow(cells, i + 1, acc)
    ELSE LET j == chainEnd(cells, i, signOf(cells[i]))
         IN  scanRow(cells, j, acc + chainCost(j - i))

\* A row argument is [isArray, cells]; a non-array argument has no cells.
minReplacementsToAvoidTriples(r) ==
    IF ~r.isArray \/ Len(r.cells) = 0 THEN 0
    ELSE scanRow(r.cells, 1, 0)

(***************************************************************************)
(* Minimum locator                                                         *)
(***************************************************************************)
\* The value null of GlobalMinResult.value.
Null == [t |-> "null", v |-> 0]

Position(r, c) == [rowIndex |-> r, colIndex |-> c]

isCandidateNaNAllowed(cell) == IsNumberType(cell)

\* The negation of line 105: the cell is a number and not NaN.
isCandidate(cell) == ~(~IsNumberType(cell) \/ IsNaN(cell))

\* The body of the inner for loop for one cell; st is
\* [minValue, minPositions].
visitCell(cell, pos, st) ==
    IF ~isCandidate(cell) THEN st
    ELSE IF NumLess(cell, st.minValue)
         THEN [minValue |-> cell, minPositions |-> <<pos>>]
    ELSE IF StrictEq(cell, st.minValue)
         THEN [minValue |-> st.minValue,
               minPositions |-> Append(st.minPositions, pos)]
    ELSE st

\* The inner for loop over one row (indices of the source are 0-based).
RECURSIVE scanCols(_, _, _, _)
scanCols(r, rowIndex, colIndex, st) ==
    IF colIndex >= Len(r) THEN st
    ELSE scanCols(r, rowIndex, colIndex + 1,
                  visitCell(r[colIndex + 1], Position(rowIndex, colIndex), st))

\* The outer for loop over the rows.
RECURSIVE scanRows(_, _, _)
scanRows(m, rowIndex, st) ==
    IF rowIndex >= Len(m) THEN st
    ELSE scanRows(m, rowIndex + 1, scanCols(m[rowIndex + 1], rowIndex, 0, st))

rowsOfColumns(positions) ==
    {positions[k].colIndex : k \in 1..Len(positions)}

\* new Set(minPositions.map((pos) => pos.rowIndex))
rowsOf(positions) ==
    {positions[k].rowIndex : k \in 1..Len(positions)}

findGlobalMin(m) ==
    LET st == scanRows(m, 0, [minValue |-> Inf, minPositions |-> <<>>])
    IN  [value |-> IF st.minValue = Inf THEN Null ELSE st.minValue,
         positions |-> st.minPositions,
         rowsWithMin |-> rowsOf(st.minPositions)]

(***************************************************************************)
(* Table renderer.  A written line is [kind, segs]: kind names the         *)
(* console.log statement that wrote it, segs is the line's text cut into   *)
(* the pieces the source concatenates, each [txt, esc] with esc = TRUE for *)
(* an ANSI styling code (which takes no room on the screen).  The Russian  *)
(* notices are written in English and EMPTY_CELL (one em dash) as "-".     *)
(***************************************************************************)
Seg(s) == [txt |-> s, esc |-> FALSE]

Esc(s) == [txt |-> s, esc |-> TRUE]

COLORS == [reset |-> Esc("ESC[0m"), bold |-> Esc("ESC[1m"),
           red |-> Esc("ESC[31m"), yellow |-> Esc("ESC[43m")]

\* The string constant EMPTY_CELL, as a value a table cell can hold.
EMPTY_CELL == [t |-> "empty", v |-> 0]

ROW_MARKER == "*"

\* String(value)
String(c) ==
    CASE c.t = "num" -> ToString(c.v)
      [] c.t = "inf" -> "Infinity"
      [] c.t = "nan" -> "NaN"
      [] c.t = "undef" -> "undefined"
      [] c.t = "str" -> "x"
      [] c.t = "empty" -> "-"
      [] c.t = "null" -> "null"

\* s.padStart(width, " ")
RECURSIVE padStart(_, _)
padStart(s, width) ==
    IF Len(s) >= width THEN s ELSE padStart(" " \o s, width)

\* "-".repeat(n)
RECURSIVE repeatDash(_)
repeatDash(n) == IF n <= 0 THEN "" ELSE "-" \o repeatDash(n - 1)

Max(a, b) == IF a >= b THEN a ELSE b

\* The longest String(cell) over the cells of the rows from index k on,
\* starting from the running maximum acc.
RECURSIVE maxCellLength(_, _, _)
maxCellLength(m, k, acc) ==
    IF k > Len(m) THEN acc
    ELSE LET rowMax(r) ==
                 LET f[i \in 0..Len(r)] ==
                         IF i = 0 THEN acc
                         ELSE Max(f[i - 1], Len(String(r[i])))
                 IN  f[Len(r)]
         IN  maxCellLength(m, k + 1, rowMax(m[k]))

computeColWidth(m) == Max(4, maxCellLength(m, 1, 1)) + 1

formatCell(value, width, highlight, useColors) ==
    LET s == padStart(String(value), width)
    IN  IF highlight /\ useColors
        THEN <<COLORS.yellow, COLORS.bold, Seg(s), COLORS.reset>>
        ELSE <<Seg(s)>>

\* Math.max(...matrix.map((row) => row.length)) of a non-empty matrix
totalColsOf(m) ==
    CHOOSE n \in {Len(m[k]) : k \in 1..Len(m)} :
        \A k \in 1..Len(m) : Len(m[k]) <= n

\* The header's pieces: the left margin, one label per column, the
\* trailing labels.
headerSegs(totalCols, colWidth) ==
    <<Seg("     |")>>
        \o [c \in 1..totalCols |-> Seg(padStart("c" \o ToString(c - 1), colWidth))]
        \o <<Seg("  | minPos | replace")>>

\* The text of a line: its pieces joined.
RECURSIVE Text(_)
Text(segs) == IF segs = <<>> THEN "" ELSE segs[1].txt \o Text(Tail(segs))

\* The formatted cells of one data row, columns colIndex..totalCols-1.
RECURSIVE formattedCells(_, _, _, _, _, _)
formattedCells(r, colIndex, totalCols, colWidth, globalMin, useColors) ==
    IF colIndex >= totalCols THEN <<>>
    ELSE LET cellValue == IF colIndex < Len(r) THEN r[colIndex + 1] ELSE EMPTY_CELL
             isGlobalMinCell == StrictEq(cellValue, globalMin)
         IN  formatCell(cellValue, colWidth, isGlobalMinCell, useColors)
                 \o formattedCells(r, colIndex + 1, totalCols, colWidth,
                                   globalMin, useColors)

\* String(minPositive) of a row, or EMPTY_CELL when it has no positive
\* number.
minPositiveStr(r) ==
    LET positiveNumbers ==
            {k \in 1..Len(r) : IsNumberType(r[k]) /\ ~IsNaN(r[k])
                                 /\ NumLess(Num(0), r[k])}
    IN  IF positiveNumbers = {} THEN String(EMPTY_CELL)
        ELSE String(r[CHOOSE k \in positiveNumbers :
                        \A j \in positiveNumbers : ~NumLess(r[j], r[k])])

\* rowsWithMin.has(rowIndex) ? ROW_MARKER : " "
rowMarkerOf(rowsWithMin, rowIndex) ==
    IF rowIndex \in rowsWithMin THEN ROW_MARKER ELSE " "

\* The line of data row rowIndex: marker, row label, cells, trailing fields.
rowLine(m, rowIndex, totalCols, colWidth, res, useColors) ==
    LET r == m[rowIndex + 1]
    IN  [kind |-> "row",
         segs |-> <<Seg(rowMarkerOf(res.rowsWithMin, rowIndex)),
                    Seg(" r" \o padStart(ToString(rowIndex), 2) \o " |")>>
                  \o formattedCells(r, 0, totalCols, colWidth, res.value, useColors)
                  \o <<Seg(" | " \o padStart(minPositiveStr(r), 6) \o " | "
                           \o padStart(ToString(
                                  minReplacementsToAvoidTriples(
                                      [isArray |-> TRUE, cells |-> r])), 4))>>]

\* minPositions.map(...).join(", ")
RECURSIVE positionsStr(_)
positionsStr(ps) ==
    IF ps = <<>> THEN ""
    ELSE "(r" \o ToString(ps[1].rowIndex) \o ",c" \o ToString(ps[1].colIndex) \o ")"
            \o (IF Len(ps) > 1 THEN ", " ELSE "") \o positionsStr(Tail(ps))

\* The line after the table: the not-found notice or the minimum with its
\* positions.
summaryLine(res, useColors) ==
    IF res.value = Null
    THEN [kind |-> "notFound",
          segs |-> <<Seg("Global minimum not found (no numeric values).")>>]
    ELSE [kind |-> "summary",
          segs |-> <<Seg("Global minimum: ")>>
                   \o (IF useColors
                       THEN <<COLORS.red, Seg(String(res.value)), COLORS.reset>>
                       ELSE <<Seg(String(res.value))>>)
                   \o <<Seg(" found at positions: " \o positionsStr(res.positions))>>]

BlankLine == [kind |-> "blank", segs |-> <<>>]

prettyPrintMatrixNoTrailer(m, useColors) ==
    IF Len(m) = 0
    THEN <<[kind |-> "empty", segs |-> <<Seg("Matrix is empty.")>>]>>
    ELSE LET totalRows == Len(m)
             totalCols == totalColsOf(m)
             res == findGlobalMin(m)
             colWidth == computeColWidth(m)
             header == headerSegs(totalCols, colWidth)
             separator == [kind |-> "separator",
                           segs |-> <<Seg(repeatDash(Len(Text(header))))>>]
         IN  <<BlankLine, [kind |-> "header", segs |-> header], separator>>
                 \o [k \in 1..totalRows |->
                        rowLine(m, k - 1, totalCols, colWidth, res, useColors)]
                 \o <<separator, summaryLine(res, useColors)>>

\* The lines prettyPrintMatrix writes, in order.
prettyPrintMatrix(m, useColors) ==
    IF Len(m) = 0
    THEN <<[kind |-> "empty", segs |-> <<Seg("Matrix is empty.")>>]>>
    ELSE LET totalRows == Len(m)
             totalCols == totalColsOf(m)
             res == findGlobalMin(m)
             colWidth == computeColWidth(m)
             header == headerSegs(totalCols, colWidth)
             separator == [kind |-> "separator",
                           segs |-> <<Seg(repeatDash(Len(Text(header))))>>]
         IN  <<BlankLine, [kind |-> "header", segs |-> header], separator>>
                 \o [k \in 1..totalRows |->
                        rowLine(m, k - 1, totalCols, colWidth, res, useColors)]
                 \o <<separator, summaryLine(res, useColors), BlankLine>>

(***************************************************************************)
(* Bounded inputs of the sign-run analyzer                                 *)
(***************************************************************************)
MaxRowLen == 6

RowCells == {Num(-1), Num(1), Num(0), NaN, Undef, Str}

SeqsOfLen(S, n) == [1..n -> S]

SeqsUpTo(S, n) == UNION {SeqsOfLen(S, k) : k \in 0..n}

NotAnArray == [isArray |-> FALSE, cells |-> <<>>]

RowInputs ==
    {[isArray |-> TRUE, cells |-> s] : s \in SeqsUpTo(RowCells, MaxRowLen)}
        \cup {NotAnArray}

NoResult == [value |-> Null, positions |-> <<>>, rowsWithMin |-> {}]

NoArgs == [rows2 |-> 0, cols2 |-> 0, min |-> 0, max |-> 0, useColors |-> FALSE]

InitRow ==
    /\ pc = "ready"
    /\ row \in RowInputs
    /\ replacements = 0
    /\ matrix = <<>>
    /\ minResult = NoResult
    /\ output = <<>>
    /\ args = NoArgs
    /\ draws = 0

CallMinReplacements ==
    /\ pc = "ready"
    /\ replacements' = minReplacementsToAvoidTriples(row)
    /\ pc' = "returned"
    /\ UNCHANGED <<row, matrix, minResult, output, args, draws>>

NextRow == CallMinReplacements

SpecRow == InitRow /\ [][NextRow]_vars

(***************************************************************************)
(* The claims' vocabulary for rows, stated without the analyzer's code     *)
(***************************************************************************)
\* The three-way classification of a cell: zero, NaN, missing and
\* non-numeric cells are neutral.
CellClass(c) ==
    CASE c.t = "inf" -> "positive"
      [] c.t = "num" /\ c.v > 0 -> "positive"
      [] c.t = "num" /\ c.v < 0 -> "negative"
      [] OTHER -> "neutral"

SameRun(cells, a, b) ==
    /\ CellClass(cells[a]) # "neutral"
    /\ \A k \in a..b : CellClass(cells[k]) = CellClass(cells[a])

\* The maximal runs <<a, b>> of consecutive cells of one non-neutral sign.
MaximalRuns(cells) ==
    {ab \in (1..Len(cells)) \X (1..Len(cells)) :
        /\ ab[1] <= ab[2]
        /\ SameRun(cells, ab[1], ab[2])
        /\ (ab[1] = 1 \/ CellClass(cells[ab[1] - 1]) # CellClass(cells[ab[1]]))
        /\ (ab[2] = Len(cells) \/ CellClass(cells[ab[2] + 1]) # CellClass(cells[ab[2]]))}

RECURSIVE SumFloorThirds(_)
SumFloorThirds(runs) ==
    IF runs = {} THEN 0
    ELSE LET ab == CHOOSE r \in runs : TRUE
         IN  ((ab[2] - ab[1] + 1) \div 3) + SumFloorThirds(runs \ {ab})

\* No three consecutive cells of the same non-neutral sign.
NoTriple(cells) ==
    \A i \in 1..(Len(cells) - 2) : ~SameRun(cells, i, i + 2)

\* The row after replacing the cells at the positions S by the values vals.
Replaced(cells, S, vals) ==
    [i \in 1..Len(cells) |-> IF i \in S THEN vals[i] ELSE cells[i]]

\* The replacement that gives a non-neutral cell the opposite sign.
Opposite(c) == IF CellClass(c) = "positive" THEN Num(-1) ELSE Num(1)

ReplacementValues == {Num(-1), Num(0), Num(1)}

\* C1: minReplacements(row) is the sum of floor(L/3) over the maximal runs
\* of consecutive cells of one non-neutral sign, L the length of the run;
\* neutral cells end a run and add nothing, and an empty or non-array
\* argument gives 0.
C1_SumOfFloorThirds ==
    pc = "returned" =>
        replacements =
            IF row.isArray THEN SumFloorThirds(MaximalRuns(row.cells)) ELSE 0

\* A row that is one run of length 6 has been analysed: two replacements.
C1_Witness ==
    /\ pc = "returned"
    /\ row.isArray
    /\ \E ab \in MaximalRuns(row.cells) : ab[2] - ab[1] + 1 = 6
    /\ replacements = 2

\* C2: minReplacements(row) is the true minimum number of single-cell
\* replacements after which no three consecutive cells share a non-neutral
\* sign: flipping exactly that many cells to the opposite sign reaches such
\* a row, and no smaller set of replacements, whatever values it writes,
\* does.
C2_TrueMinimum ==
    (pc = "returned" /\ row.isArray) =>
        LET cells == row.cells
            n == Len(cells)
            signed == {i \in 1..n : CellClass(cells[i]) # "neutral"}
        IN  /\ \E S \in SUBSET signed :
                /\ Cardinality(S) = replacements
                /\ NoTriple(Replaced(cells, S, [i \in S |-> Opposite(cells[i])]))
            /\ \A S \in SUBSET (1..n) :
                Cardinality(S) < replacements =>
                    \A vals \in [S -> ReplacementValues] :
                        ~NoTriple(Replaced(cells, S, vals))

\* A row whose run of three lies directly before a run of the opposite
\* sign has been analysed and needs one replacement.
C2_Witness ==
    /\ pc = "returned"
    /\ row.isArray
    /\ replacements = 1
    /\ \E ab \in MaximalRuns(row.cells) :
        /\ ab[2] - ab[1] + 1 = 3
        /\ ab[2] + 2 <= Len(row.cells)
        /\ CellClass(row.cells[ab[2] + 1]) = "negative"
        /\ CellClass(row.cells[ab[2] + 2]) = "negative"
        /\ CellClass(row.cells[ab[1]]) = "positive"

(***************************************************************************)
(* Bounded grids: at most MaxGridRows rows and MaxGridCells cells in all,  *)
(* rows of any (unequal) lengths, the empty row and the empty grid         *)
(* included.                                                               *)
(***************************************************************************)
MaxGridRows == 2

MaxGridCells == 4

GridCells == {Num(-1), Num(2), NaN, Undef, Str, Inf}

\* The sum of the first k of the row lengths lens.
RECURSIVE SumOfLengths(_, _)
SumOfLengths(lens, k) == IF k = 0 THEN 0 ELSE lens[k] + SumOfLengths(lens, k - 1)

\* The row lengths of the grids within the bounds.
GridShapes(maxRows, maxCells) ==
    UNION {{lens \in [1..m -> 0..maxCells] : SumOfLengths(lens, m) <= maxCells} :
           m \in 0..maxRows}

\* The grid with the row lengths lens whose cells, row after row, are cells.
GridOf(lens, cells) ==
    [r \in 1..Len(lens) |->
        [c \in 1..lens[r] |-> cells[SumOfLengths(lens, r - 1) + c]]]

\* matrix is any grid within the bounds over the cell values S.
ChooseGrid(S, maxRows, maxCells) ==
    \E lens \in GridShapes(maxRows, maxCells) :
        \E cells \in SeqsOfLen(S, SumOfLengths(lens, Len(lens))) :
            matrix = GridOf(lens, cells)

InitMin ==
    /\ pc = "ready"
    /\ row = NotAnArray
    /\ replacements = 0
    /\ ChooseGrid(GridCells, MaxGridRows, MaxGridCells)
    /\ minResult = NoResult
    /\ output = <<>>
    /\ args = NoArgs
    /\ draws = 0

CallFindGlobalMin ==
    /\ pc = "ready"
    /\ minResult' = findGlobalMin(matrix)
    /\ pc' = "returned"
    /\ UNCHANGED <<row, replacements, matrix, output, args, draws>>

NextMin == CallFindGlobalMin

SpecMin == InitMin /\ [][NextMin]_vars

(***************************************************************************)
(* The claims' vocabulary for grids, stated without the locator's code     *)
(***************************************************************************)
\* Cell (r, c) of the grid, 0-based.
CellAt(m, r, c) == m[r + 1][c + 1]

AllPositions(m) ==
    UNION {{Position(r, c) : c \in 0..(Len(m[r + 1]) - 1)} : r \in 0..(Len(m) - 1)}

\* The cell is numeric and not NaN.
NumericCell(c) == c.t \in {"num", "inf"}

NumericPositions(m) ==
    {p \in AllPositions(m) : NumericCell(CellAt(m, p.rowIndex, p.colIndex))}

\* a <= b on numeric non-NaN values.
NumericLeq(a, b) ==
    \/ b.t = "inf"
    \/ (a.t = "num" /\ b.t = "num" /\ a.v <= b.v)

\* Row-major order of positions.
RowMajorBefore(p, q) ==
    \/ p.rowIndex < q.rowIndex
    \/ (p.rowIndex = q.rowIndex /\ p.colIndex < q.colIndex)

\* C3: the returned position list is exactly the list of all positions
\* whose cell value equals the returned minimum: every listed position
\* holds that value, none holding it is left out, none is listed twice and
\* the list is in row-major order.
C3_PositionsExact ==
    pc = "returned" =>
        LET ps == minResult.positions
            holders == {p \in AllPositions(matrix) :
                          CellAt(matrix, p.rowIndex, p.colIndex) = minResult.value}
        IN  /\ {ps[k] : k \in 1..Len(ps)} = holders
            /\ \A j, k \in 1..Len(ps) : j < k => RowMajorBefore(ps[j], ps[k])

\* C4: on a grid with a numeric non-NaN cell the returned value is not
\* "none", is the value of such a cell, and is at most every such cell.
C4_ValueIsMinimum ==
    (pc = "returned" /\ NumericPositions(matrix) # {}) =>
        /\ minResult.value # Null
        /\ \E p \in NumericPositions(matrix) :
            CellAt(matrix, p.rowIndex, p.colIndex) = minResult.value
        /\ \A p \in NumericPositions(matrix) :
            NumericLeq(minResult.value, CellAt(matrix, p.rowIndex, p.colIndex))

\* C5: on a grid without a numeric non-NaN cell the result is "none", with
\* no position and no minimum row.
C5_NoneWithoutNumericCell ==
    (pc = "returned" /\ NumericPositions(matrix) = {}) =>
        /\ minResult.value = Null
        /\ minResult.positions = <<>>
        /\ minResult.rowsWithMin = {}

\* A grid with cells, none of them numeric and non-NaN, has been scanned.
C5_Witness ==
    /\ pc = "returned"
    /\ NumericPositions(matrix) = {}
    /\ \E p \in AllPositions(matrix) : CellAt(matrix, p.rowIndex, p.colIndex) = NaN
    /\ \E p \in AllPositions(matrix) : CellAt(matrix, p.rowIndex, p.colIndex) = Undef
    /\ minResult.value = Null

(***************************************************************************)
(* Rendering a grid                                                        *)
(***************************************************************************)
RenderCells == {Num(-1), Num(2), NaN, Undef, Inf}

InitRender ==
    /\ pc = "ready"
    /\ row = NotAnArray
    /\ replacements = 0
    /\ ChooseGrid(RenderCells, MaxGridRows, MaxGridCells)
    /\ minResult = NoResult
    /\ output = <<>>
    /\ args = NoArgs
    /\ draws = 0

\* prettyPrintMatrix(matrix, {useColors}); minResult keeps what its call of
\* findGlobalMin returned.
CallPrettyPrint(useColors) ==
    /\ pc = "ready"
    /\ output' = prettyPrintMatrix(matrix, useColors)
    /\ minResult' = findGlobalMin(matrix)
    /\ args' = [args EXCEPT !.useColors = useColors]
    /\ pc' = "printed"
    /\ UNCHANGED <<row, replacements, matrix, draws>>

NextRender == \E useColors \in BOOLEAN : CallPrettyPrint(useColors)

SpecRender == InitRender /\ [][NextRender]_vars

(***************************************************************************)
(* Generating a grid                                                       *)
(***************************************************************************)
MaxDim == 2

MaxValue == 1

DimArgs == (-2)..(2 * MaxDim)

ValueArgs == (-1)..MaxValue

InitGen ==
    /\ pc = "ready"
    /\ row = NotAnArray
    /\ replacements = 0
    /\ matrix = <<>>
    /\ minResult = NoResult
    /\ output = <<>>
    /\ args = NoArgs
    /\ draws = 0

\* generateMatrix(rows2 / 2, cols2 / 2, min, max): it throws, or returns a
\* grid after one Math.random() call per cell.
CallGenerateMatrix(rows2, cols2, min, max) ==
    /\ pc = "ready"
    /\ args' = [args EXCEPT !.rows2 = rows2, !.cols2 = cols2,
                            !.min = min, !.max = max]
    /\ IF invalidDimensions(rows2, cols2)
       THEN /\ pc' = "thrown"
            /\ UNCHANGED <<matrix, draws>>
       ELSE /\ pc' = "generated"
            /\ matrix' \in generateMatrix(rows2, cols2, min, max)
            /\ draws' = draws + (rows2 \div 2) * (cols2 \div 2)
    /\ UNCHANGED <<row, replacements, minResult, output>>

NextGen ==
    \E rows2, cols2 \in DimArgs, min, max \in ValueArgs :
        CallGenerateMatrix(rows2, cols2, min, max)

SpecGen == InitGen /\ [][NextGen]_vars

\* The arguments are positive integers.
PositiveInteger(x2) == x2 > 0 /\ x2 % 2 = 0

\* C6: a returned grid has exactly rows rows of exactly cols cells, each an
\* integer between the smaller and the larger of min and max, also when
\* min > max.
C6_ShapeAndRange ==
    pc = "generated" =>
        LET lo == IF args.min <= args.max THEN args.min ELSE args.max
            hi == IF args.min <= args.max THEN args.max ELSE args.min
        IN  /\ 2 * Len(matrix) = args.rows2
            /\ \A r \in 1..Len(matrix) :
                /\ 2 * Len(matrix[r]) = args.cols2
                /\ \A c \in 1..Len(matrix[r]) :
                    /\ matrix[r][c].t = "num"
                    /\ matrix[r][c].v \in lo..hi

\* A 2 x 2 grid generated with min > max holds both ends of the range.
C6_Witness ==
    /\ pc = "generated"
    /\ args.min > args.max
    /\ Len(matrix) = 2 /\ Len(matrix[1]) = 2
    /\ matrix[1][1] = Num(args.min)
    /\ matrix[2][2] = Num(args.max)

\* C7: generateMatrix throws exactly when rows or cols is not a positive
\* integer, and then it returns no grid and draws no random value.
C7_ThrowsOnInvalidDimension ==
    pc # "ready" =>
        /\ pc = "thrown" <=>
               ~(PositiveInteger(args.rows2) /\ PositiveInteger(args.cols2))
        /\ pc = "thrown" => (matrix = <<>> /\ draws = 0)

\* A call with rows = 0 and a call with cols = 1.5 have thrown.
C7_Witness ==
    /\ pc = "thrown"
    /\ \/ (args.rows2 = 0 /\ args.cols2 = 2)
       \/ (args.rows2 = 2 /\ args.cols2 = 3)

(***************************************************************************)
(* The claims about the rendered table                                     *)
(***************************************************************************)
\* The pieces of a line that take room on the screen.
Visible(segs) == SelectSeq(segs, LAMBDA x : ~x.esc)

VisibleWidth(line) == Len(Text(Visible(line.segs)))

\* The screen column at which the k-th visible piece of a line starts.
StartColumn(line, k) == Len(Text(SubSeq(Visible(line.segs), 1, k - 1)))

RowLabel(r) == " r" \o padStart(ToString(r), 2) \o " |"

\* C8: for a grid of zero rows exactly one line is written, the empty-grid
\* notice; for R >= 1 rows the lines are a blank line, the header, a
\* separator, the R data rows in ascending row order, a separator, one
\* summary line (the minimum or the not-found notice) and a blank line.
C8_LineSequence ==
    pc = "printed" =>
        LET R == Len(matrix)
        IN  IF R = 0
            THEN Len(output) = 1 /\ output[1].kind = "empty"
            ELSE /\ Len(output) = R + 6
                 /\ output[1].kind = "blank" /\ Text(output[1].segs) = ""
                 /\ output[2].kind = "header"
                 /\ output[3].kind = "separator"
                 /\ \A k \in 1..R :
                     /\ output[3 + k].kind = "row"
                     /\ output[3 + k].segs[2].txt = RowLabel(k - 1)
                 /\ output[R + 4].kind = "separator"
                 /\ output[R + 5].kind \in {"summary", "notFound"}
                 /\ output[R + 6].kind = "blank" /\ Text(output[R + 6].segs) = ""

\* A grid of two rows has been rendered, with its minimum reported.
C8_Witness ==
    /\ pc = "printed"
    /\ Len(matrix) = 2
    /\ Len(output) = 8
    /\ output[7].kind = "summary"

\* C9: the header, the separators and every data row have the same visible
\* width, and every column label starts at the screen column at which the
\* cells of that column start, as do the trailing labels and fields.
C9_EqualWidths ==
    (pc = "printed" /\ Len(matrix) > 0) =>
        LET header == output[2]
            n == Len(Visible(header.segs)) - 2
        IN  \A k \in 3..(Len(output) - 2) :
                /\ VisibleWidth(output[k]) = VisibleWidth(header)
                /\ output[k].kind = "row" =>
                       \A c \in 1..(n + 1) :
                           StartColumn(output[k], c + 2) = StartColumn(header, c + 1)

\* The numeric non-NaN cell values no numeric non-NaN cell is below.
GlobalMinimum(m) ==
    {CellAt(m, p.rowIndex, p.colIndex) : p \in
        {q \in NumericPositions(m) :
            \A o \in NumericPositions(m) :
                NumericLeq(CellAt(m, q.rowIndex, q.colIndex),
                           CellAt(m, o.rowIndex, o.colIndex))}}

RowHoldsMinimum(m, r) ==
    \E c \in 0..(Len(m[r + 1]) - 1) : CellAt(m, r, c) \in GlobalMinimum(m)

\* C10: row r is in the returned set of minimum rows exactly if it holds a
\* cell equal to the grid's global minimum, and the data row of r starts
\* with the marker glyph for exactly those rows, with a blank otherwise; a
\* grid without a global minimum has no marked row.
C10_MarkedRows ==
    pc = "printed" =>
        \A r \in 0..(Len(matrix) - 1) :
            /\ r \in minResult.rowsWithMin <=> RowHoldsMinimum(matrix, r)
            /\ output[4 + r].segs[1].txt =
                   IF RowHoldsMinimum(matrix, r) THEN "*" ELSE " "

\* A grid whose second row alone holds the minimum has been rendered.
C10_Witness ==
    /\ pc = "printed"
    /\ Len(matrix) = 2
    /\ minResult.rowsWithMin = {1}
    /\ output[4].segs[1].txt = " "
    /\ output[5].segs[1].txt = "*"

====
